---- MODULE Spec2Model ----
(***************************************************************************)
(* Model of the text-to-speech pipeline of the App component:             *)
(* speak (stop-then-replace entry, TTS request, direct playback, raw-PCM  *)
(* decode with a synthesized 44-byte WAV header, native speech fallback)  *)
(* and writeString.                                                        *)
(*                                                                         *)
(* JavaScript runs every handler to completion, so each action below is   *)
(* one synchronous stretch of speak: from its entry (or from the          *)
(* resumption after an await) to the next await or to its return.         *)
(***************************************************************************)
EXTENDS Integers, Sequences, FiniteSets, TLC

(***************************************************************************)
(* Bounds of the model.                                                    *)
(***************************************************************************)
MaxCalls == 2        \* number of speak invocations in one behaviour
MaxB64Len == 4       \* longest enumerated base64 string (in characters)
MaxDataLen == 45     \* data lengths 0..MaxDataLen given to the header code
MaxGap == 45         \* data lengths 2^32-1-MaxGap .. 2^32-1 as well

(***************************************************************************)
(* Numbers.  A JavaScript number that may exceed 31 bits is kept as its    *)
(* little-endian base-256 digits (NumDigits of them), so that the 32-bit   *)
(* and 16-bit stores of DataView truncate exactly as the platform does.    *)
(***************************************************************************)
NumDigits == 6

RECURSIVE ToNumRec(_, _)
ToNumRec(n, k) == IF k = 0 THEN <<>> ELSE <<n % 256>> \o ToNumRec(n \div 256, k - 1)

\* the number n (0 <= n < 2^31) as digits
ToNum(n) == ToNumRec(n, NumDigits)

RECURSIVE AddRec(_, _, _, _)
AddRec(a, b, i, carry) ==
    IF i > NumDigits THEN <<>>
    ELSE LET s == a[i] + b[i] + carry
         IN  <<s % 256>> \o AddRec(a, b, i + 1, s \div 256)

\* a + b on digit sequences (exact: no operand here reaches 256^NumDigits)
NumAdd(a, b) == AddRec(a, b, 1, 0)

\* the digits of a number that fit w bytes, zero-extended back to a number
ZeroExtend(bytes) == bytes \o [i \in 1..(NumDigits - Len(bytes)) |-> 0]

(***************************************************************************)
(* DataView over the 44-byte ArrayBuffer.  A view is a sequence of 44      *)
(* bytes; offset o of the code is index o + 1 here.                        *)
(***************************************************************************)
HeaderSize == 44

\* new ArrayBuffer(44): zero-filled
NewBuffer == [i \in 1..HeaderSize |-> 0]

\* store the byte sequence bs at offset off
Store(view, off, bs) ==
    [i \in 1..Len(view) |->
        IF i > off /\ i <= off + Len(bs) THEN bs[i - off] ELSE view[i]]

\* view.setUint8(offset, v): v modulo 2^8
setUint8(view, off, v) == Store(view, off, <<v % 256>>)

\* view.setUint16(offset, v, true): the low 16 bits of v, little-endian
setUint16(view, off, num) == Store(view, off, SubSeq(num, 1, 2))

\* view.setUint32(offset, v, true): the low 32 bits of v, little-endian
setUint32(view, off, num) == Store(view, off, SubSeq(num, 1, 4))

\* character codes of the four tags the code writes
RIFF == <<82, 73, 70, 70>>
WAVE == <<87, 65, 86, 69>>
FMT == <<102, 109, 116, 32>>
DATA == <<100, 97, 116, 97>>

RECURSIVE writeStringFrom(_, _, _, _)
writeStringFrom(view, off, str, i) ==
    IF i > Len(str) THEN view
    ELSE writeStringFrom(setUint8(view, off + (i - 1), str[i]), off, str, i + 1)

\* writeString(view, offset, string): one setUint8 per character
writeString(view, off, str) == writeStringFrom(view, off, str, 1)

sampleRate == 24000
numChannels == 1
bitsPerSample == 16

\* variant: the byte rate computed from bits, not bytes, per sample
ByteRate_Bits == sampleRate * numChannels * bitsPerSample

ByteRate == sampleRate * numChannels * (bitsPerSample \div 8)
BlockAlign == numChannels * (bitsPerSample \div 8)

\* the header stores of speak in code order: the call, its offset, its value
HeaderStores(len) ==
    << [op |-> "writeString", off |-> 0, val |-> RIFF],
       [op |-> "setUint32", off |-> 4, val |-> NumAdd(ToNum(36), len)],
       [op |-> "writeString", off |-> 8, val |-> WAVE],
       [op |-> "writeString", off |-> 12, val |-> FMT],
       [op |-> "setUint32", off |-> 16, val |-> ToNum(16)],
       [op |-> "setUint16", off |-> 20, val |-> ToNum(1)],
       [op |-> "setUint16", off |-> 22, val |-> ToNum(numChannels)],
       [op |-> "setUint32", off |-> 24, val |-> ToNum(sampleRate)],
       [op |-> "setUint32", off |-> 28, val |-> ToNum(ByteRate)],
       [op |-> "setUint16", off |-> 32, val |-> ToNum(BlockAlign)],
       [op |-> "setUint16", off |-> 34, val |-> ToNum(bitsPerSample)],
       [op |-> "writeString", off |-> 36, val |-> DATA],
       [op |-> "setUint32", off |-> 40, val |-> len] >>

\* one store applied to the view
ApplyStore(view, st) ==
    CASE st.op = "writeString" -> writeString(view, st.off, st.val)
      [] st.op = "setUint32" -> setUint32(view, st.off, st.val)
      [] st.op = "setUint16" -> setUint16(view, st.off, st.val)

\* the number of bytes a store writes
StoreWidth(st) ==
    CASE st.op = "writeString" -> Len(st.val)
      [] st.op = "setUint32" -> 4
      [] st.op = "setUint16" -> 2

RECURSIVE ApplyStores(_, _, _)
ApplyStores(view, stores, i) ==
    IF i > Len(stores) THEN view
    ELSE ApplyStores(ApplyStore(view, stores[i]), stores, i + 1)

\* the header speak builds for a data length len (a number as digits)
buildHeader(len) == ApplyStores(NewBuffer, HeaderStores(len), 1)

\* the unsigned value of the w-byte little-endian field at offset off
Field(view, off, w) == ZeroExtend(SubSeq(view, off + 1, off + w))

(***************************************************************************)
(* window.atob: the forgiving-base64 decode.  A base64 character is its    *)
(* 6-bit value 0..63; PadChar is '=', SpaceChar an ASCII whitespace and    *)
(* BadChar any character outside the alphabet.                             *)
(***************************************************************************)
PadChar == 64
SpaceChar == 65
BadChar == 66

\* the characters the enumerated payload strings are made of
B64Sample == {0, 22, 63, PadChar, SpaceChar, BadChar}

StripSpace(s) == SelectSeq(s, LAMBDA c : c # SpaceChar)

\* a string whose length is a multiple of 4 loses one or two trailing '='
StripPad(s) ==
    IF Len(s) % 4 = 0 /\ Len(s) > 0 /\ s[Len(s)] = PadChar
    THEN IF s[Len(s) - 1] = PadChar THEN SubSeq(s, 1, Len(s) - 2)
                                    ELSE SubSeq(s, 1, Len(s) - 1)
    ELSE s

RECURSIVE DecodeFrom(_, _)
DecodeFrom(s, i) ==
    LET left == Len(s) - i + 1
    IN  IF left <= 0 THEN <<>>
        ELSE IF left = 2
        THEN << s[i] * 4 + s[i + 1] \div 16 >>
        ELSE IF left = 3
        THEN << s[i] * 4 + s[i + 1] \div 16,
                (s[i + 1] % 16) * 16 + s[i + 2] \div 4 >>
        ELSE << s[i] * 4 + s[i + 1] \div 16,
                (s[i + 1] % 16) * 16 + s[i + 2] \div 4,
                (s[i + 2] % 4) * 64 + s[i + 3] >> \o DecodeFrom(s, i + 4)

\* atob(s): [ok |-> FALSE] when it throws InvalidCharacterError, else the
\* character codes of the binary string
atob(s) ==
    LET d == StripPad(StripSpace(s))
    IN  IF Len(d) % 4 = 1 \/ \E i \in 1..Len(d) : d[i] \notin 0..63
        THEN [ok |-> FALSE, str |-> <<>>]
        ELSE [ok |-> TRUE, str |-> DecodeFrom(d, 1)]

\* bytes[i] = binaryString.charCodeAt(i), stored in a Uint8Array
ToBytes(binaryString) ==
    [i \in 1..Len(binaryString) |-> binaryString[i] % 256]

\* variant: the decoded bytes are set at offset 0, under the header
wavBytes_BytesAtZero(bytes) ==
    LET len == Len(bytes)
        wavHeader == buildHeader(ToNum(len))
        buf == [i \in 1..(Len(wavHeader) + len) |-> 0]
    IN  Store(Store(buf, 0, bytes), 0, wavHeader)

\* wavBytes: a Uint8Array of 44 + len bytes, the header set at 0 and the
\* decoded bytes set at 44
wavBytes(bytes) ==
    LET len == Len(bytes)
        wavHeader == buildHeader(ToNum(len))
        buf == [i \in 1..(Len(wavHeader) + len) |-> 0]
    IN  Store(Store(buf, 0, wavHeader), Len(wavHeader), bytes)

(***************************************************************************)
(* State.                                                                  *)
(***************************************************************************)
VARIABLES
    pc,           \* pc[c]: where speak call c is: idle, fetch, direct, blob, done
    text,         \* text[c]: the argument of call c, as its length in characters
    sent,         \* sent[c]: the text of the TTS request of call c (0: none yet)
    payload,      \* payload[c]: base64Audio of the response of call c
    audio,        \* audio[c][src]: the Audio element call c made from src
    blob,         \* blob[c]: the bytes of the Blob call c made (<<>>: none)
    audioRef,     \* audioRef.current
    nativeQueue,  \* window.speechSynthesis: its utterances, the head speaking
    hasSynth,     \* 'speechSynthesis' in window
    raised,       \* raised[c]: which awaited steps of call c have thrown
    outcome,      \* outcome[c]: how call c ended
    trace,        \* trace[c]: the side effects of call c, in the order made
    arg,          \* input of the header / WAV assembly code run on its own
    res,          \* its result
    stage,        \* and how far it has run
    library,      \* the library state of the current render
    libQueue,     \* the setLibrary updates queued since that render
    storage,      \* localStorage: the item 'mustafa_library'
    libPc,        \* the component: off, effects (rendered, mount effects due), mounted
    saveDue,      \* the save effect of the last render has yet to run
    stored0,      \* the item as it was before the component mounted
    edits,        \* how many library handlers have been called
    messages,     \* the messages state: who wrote each message
    input,        \* the input state, as a sequence of tokens
    selectedImage, \* the selectedImage state: an image is selected
    isProcessing, \* the isProcessing state
    inputR,       \* input, selectedImage and isProcessing as the current
    imageR,       \*   render, and so the handlers it made, read them
    procR,
    sendPc,       \* sendPc[s]: where handleSend call s is
    sendText,     \* sendText[s]: the text call s read
    sendLog       \* sendLog[s]: the effects of call s, in the order made

speakVars == <<pc, text, sent, payload, audio, blob, audioRef, nativeQueue,
               hasSynth, raised, outcome, trace>>
pureVars == <<arg, res, stage>>
libVars == <<library, libQueue, storage, libPc, saveDue, stored0, edits>>
sendVars == <<messages, input, selectedImage, isProcessing, inputR, imageR,
              procR, sendPc, sendText, sendLog>>
appVars == <<libVars, sendVars>>
vars == <<pc, text, sent, payload, audio, blob, audioRef, nativeQueue,
          hasSynth, raised, outcome, trace, arg, res, stage, appVars>>

Calls == 1..MaxCalls
Sources == {"direct", "blob"}

\* audioRef.current = null
NoAudio == [call |-> 0, src |-> "none"]

\* text.substring(0, 300)
SubstringLimit == 300

\* the texts speak is called with: one short, one longer than the limit
Texts == {1, SubstringLimit + 1}

\* s.substring(0, n) of a string of length s
Substring(s, n) == IF s < n THEN s ELSE n

\* response.candidates?.[0]?.content?.parts?.[0]?.inlineData?.data
Undefined == [def |-> FALSE, data |-> <<>>]
Str(s) == [def |-> TRUE, data |-> s]

\* the responses the TTS request is answered with: no data, the empty
\* string, base64 of two bytes (with padding) and a string that is not base64
SpeakPayloads ==
    { Undefined, Str(<<>>), Str(<<0, 22, 63, PadChar>>), Str(<<22, BadChar>>) }

\* variant: only an absent payload is skipped, the empty string is played
Truthy_DefinedOnly(p) == p.def

\* if (base64Audio)
Truthy(p) == p.def /\ p.data # <<>>

(***************************************************************************)
(* The steps of speak, each a function of the component's state m.         *)
(***************************************************************************)
Cur ==
    [pc |-> pc, text |-> text, sent |-> sent, payload |-> payload,
     audio |-> audio, blob |-> blob, audioRef |-> audioRef,
     nativeQueue |-> nativeQueue, hasSynth |-> hasSynth, raised |-> raised,
     outcome |-> outcome, trace |-> trace]

Commit(m) ==
    /\ pc' = m.pc
    /\ text' = m.text
    /\ sent' = m.sent
    /\ payload' = m.payload
    /\ audio' = m.audio
    /\ blob' = m.blob
    /\ audioRef' = m.audioRef
    /\ nativeQueue' = m.nativeQueue
    /\ hasSynth' = m.hasSynth
    /\ raised' = m.raised
    /\ outcome' = m.outcome
    /\ trace' = m.trace

Log(m, c, ev) == [m EXCEPT !.trace[c] = Append(@, ev)]

\* variant: the handle is dropped without pausing its element
StopExisting_NoPause(m, c) ==
    IF m.audioRef # NoAudio
    THEN Log([m EXCEPT !.audioRef = NoAudio], c, "clear")
    ELSE m

\* if (audioRef.current) { audioRef.current.pause(); audioRef.current = null; }
StopExisting(m, c) ==
    IF m.audioRef # NoAudio
    THEN LET r == m.audioRef
             m1 == Log([m EXCEPT !.audio[r.call][r.src] = "paused"], c, "pause")
         IN  Log([m1 EXCEPT !.audioRef = NoAudio], c, "clear")
    ELSE m

\* if ('speechSynthesis' in window) window.speechSynthesis.cancel();
CancelNative(m, c) ==
    IF m.hasSynth
    THEN Log([m EXCEPT !.nativeQueue = <<>>], c, "cancel")
    ELSE m

\* ai.models.generateContent({... text.substring(0, 300) ...}), awaited
Request(m, c) ==
    Log([m EXCEPT !.sent[c] = Substring(m.text[c], SubstringLimit),
                  !.pc[c] = "fetch"], c, "request")

\* speak(text) up to its first await
speakEntry(m, c, t) ==
    Request(CancelNative(StopExisting([m EXCEPT !.text[c] = t], c), c), c)

\* variant: the fallback speaks the truncated text of the request
Fallback_Truncated(m, c) ==
    LET m1 == IF m.hasSynth
              THEN Log([m EXCEPT !.nativeQueue =
                            Append(@, [call |-> c, text |-> m.sent[c]])],
                       c, "native")
              ELSE m
    IN  [m1 EXCEPT !.pc[c] = "done", !.outcome[c] = "failed"]

\* the catch of speak: the native fallback with the text of the call
Fallback(m, c) ==
    LET m1 == IF m.hasSynth
              THEN Log([m EXCEPT !.nativeQueue =
                            Append(@, [call |-> c, text |-> m.text[c]])],
                       c, "native")
              ELSE m
    IN  [m1 EXCEPT !.pc[c] = "done", !.outcome[c] = "failed"]

\* new Audio(`data:audio/wav;base64,${base64Audio}`) and audio.play(), awaited
PlayDirect(m, c) ==
    Log([m EXCEPT !.audio[c]["direct"] = "starting", !.pc[c] = "direct"],
        c, "direct")

\* audioRef.current = audio, and speak returns
RecordHandle(m, c, src) ==
    Log([m EXCEPT !.audioRef = [call |-> c, src |-> src],
                  !.pc[c] = "done", !.outcome[c] = src], c, "record")

\* variant: the blob element is recorded before its play() has resolved
PlayPcm_RecordEarly(m, c) ==
    LET m1 == Log(Log(m, c, "audioCtx"), c, "atob")
        dec == atob(m.payload[c].data)
    IN  IF ~dec.ok
        THEN Fallback([m1 EXCEPT !.raised[c] = @ \cup {"synth"}], c)
        ELSE LET m2 == Log(m1, c, "header")
                 m3 == [m2 EXCEPT !.blob[c] = wavBytes(ToBytes(dec.str)),
                                  !.audioRef = [call |-> c, src |-> "blob"]]
             IN  Log([m3 EXCEPT !.audio[c]["blob"] = "starting",
                                !.pc[c] = "blob"], c, "blob")

\* variant: a string that does not decode is played as an empty payload
PlayPcm_IgnoreBadBase64(m, c) ==
    LET m1 == Log(Log(m, c, "audioCtx"), c, "atob")
        dec == atob(m.payload[c].data)
        m2 == Log(m1, c, "header")
        m3 == [m2 EXCEPT !.blob[c] = wavBytes(ToBytes(dec.str))]
    IN  Log([m3 EXCEPT !.audio[c]["blob"] = "starting",
                       !.pc[c] = "blob"], c, "blob")

\* the inner catch: decode the base64, build header and blob, play the blob
PlayPcm(m, c) ==
    LET m1 == Log(Log(m, c, "audioCtx"), c, "atob")
        dec == atob(m.payload[c].data)
    IN  IF ~dec.ok
        THEN Fallback([m1 EXCEPT !.raised[c] = @ \cup {"synth"}], c)
        ELSE LET m2 == Log(m1, c, "header")
                 m3 == [m2 EXCEPT !.blob[c] = wavBytes(ToBytes(dec.str))]
             IN  Log([m3 EXCEPT !.audio[c]["blob"] = "starting",
                                !.pc[c] = "blob"], c, "blob")

\* variant: the raw-PCM strategy is tried first, without direct playback
onResponse_PcmFirst(m, c, p) ==
    LET m1 == [m EXCEPT !.payload[c] = p]
    IN  IF Truthy(p)
        THEN PlayPcm(m1, c)
        ELSE [m1 EXCEPT !.pc[c] = "done", !.outcome[c] = "noop"]

\* speak resumed with the response: base64Audio and if (base64Audio)
onResponse(m, c, p) ==
    LET m1 == [m EXCEPT !.payload[c] = p]
    IN  IF Truthy(p)
        THEN PlayDirect(m1, c)
        ELSE [m1 EXCEPT !.pc[c] = "done", !.outcome[c] = "noop"]

\* speak resumed with the rejection of the direct audio.play()
onDirectRejected(m, c) ==
    PlayPcm([m EXCEPT !.audio[c]["direct"] = "failed",
                      !.raised[c] = @ \cup {"direct"}], c)

\* speak resumed with the rejection of the blob audio.play()
onBlobRejected(m, c) ==
    Fallback([m EXCEPT !.audio[c]["blob"] = "failed",
                       !.raised[c] = @ \cup {"synth"}], c)

\* speak resumed with the rejection of generateContent
onRequestRejected(m, c) ==
    Fallback([m EXCEPT !.raised[c] = @ \cup {"fetch"}], c)

(***************************************************************************)
(* Initial state and actions.                                              *)
(***************************************************************************)
SpeakInit ==
    /\ pc = [c \in Calls |-> "idle"]
    /\ text = [c \in Calls |-> 0]
    /\ sent = [c \in Calls |-> 0]
    /\ payload = [c \in Calls |-> Undefined]
    /\ audio = [c \in Calls |-> [s \in Sources |-> "none"]]
    /\ blob = [c \in Calls |-> <<>>]
    /\ audioRef = NoAudio
    /\ nativeQueue = <<>>
    /\ raised = [c \in Calls |-> {}]
    /\ outcome = [c \in Calls |-> "none"]
    /\ trace = [c \in Calls |-> <<>>]

PureIdle ==
    /\ arg = <<>>
    /\ res = <<>>
    /\ stage = "off"

\* no item under 'mustafa_library'
NoItem == [has |-> FALSE, text |-> <<>>]

\* the library code is not running
LibIdle ==
    /\ library = <<>>
    /\ libQueue = <<>>
    /\ storage = NoItem
    /\ libPc = "off"
    /\ saveDue = FALSE
    /\ stored0 = NoItem
    /\ edits = 0

MaxSends == 2

Sends == 1..MaxSends

\* the first message, lines 27-33
Welcome == [role |-> "assistant", send |-> 0]

\* the state of the chat after the first render, lines 27-37, no
\* handleSend call made yet
ChatIdle ==
    /\ messages = <<Welcome>>
    /\ input = <<>>
    /\ selectedImage = FALSE
    /\ isProcessing = FALSE
    /\ inputR = <<>>
    /\ imageR = FALSE
    /\ procR = FALSE
    /\ sendPc = [s \in Sends |-> "idle"]
    /\ sendText = [s \in Sends |-> <<>>]
    /\ sendLog = [s \in Sends |-> <<>>]

AppIdle == LibIdle /\ ChatIdle

Init ==
    /\ SpeakInit
    /\ hasSynth \in BOOLEAN
    /\ PureIdle
    /\ AppIdle

\* speak(text) is called (by handleSend or by the library's listen button)
\* and runs to its first await; calls are numbered in the order they start
Speak(c, t) ==
    /\ pc[c] = "idle"
    /\ \A d \in Calls : d < c => pc[d] # "idle"
    /\ Commit(speakEntry(Cur, c, t))
    /\ UNCHANGED <<pureVars, appVars>>

\* the TTS request of call c resolves with payload p
RequestResolved(c, p) ==
    /\ pc[c] = "fetch"
    /\ Commit(onResponse(Cur, c, p))
    /\ UNCHANGED <<pureVars, appVars>>

\* the TTS request of call c rejects
RequestRejected(c) ==
    /\ pc[c] = "fetch"
    /\ Commit(onRequestRejected(Cur, c))
    /\ UNCHANGED <<pureVars, appVars>>

\* the platform starts playing an element whose play() is pending; a data
\* URI whose base64 does not decode never loads
AudioStarts(c, src) ==
    /\ audio[c][src] = "starting"
    /\ src = "direct" => atob(payload[c].data).ok
    /\ audio' = [audio EXCEPT ![c][src] = "playing"]
    /\ UNCHANGED <<pc, text, sent, payload, blob, audioRef, nativeQueue,
                   hasSynth, raised, outcome, trace>>
    /\ UNCHANGED <<pureVars, appVars>>

\* a playing element reaches the end of its media
AudioEnds(c, src) ==
    /\ audio[c][src] = "playing"
    /\ audio' = [audio EXCEPT ![c][src] = "ended"]
    /\ UNCHANGED <<pc, text, sent, payload, blob, audioRef, nativeQueue,
                   hasSynth, raised, outcome, trace>>
    /\ UNCHANGED <<pureVars, appVars>>

\* the play() promise of a started element resolves and speak resumes
PlayResolved(c) ==
    /\ pc[c] \in Sources
    /\ audio[c][pc[c]] \in {"playing", "ended"}
    /\ Commit(RecordHandle(Cur, c, pc[c]))
    /\ UNCHANGED <<pureVars, appVars>>

\* the play() promise of the direct element rejects and speak resumes
DirectRejected(c) ==
    /\ pc[c] = "direct"
    /\ audio[c]["direct"] = "starting"
    /\ Commit(onDirectRejected(Cur, c))
    /\ UNCHANGED <<pureVars, appVars>>

\* the play() promise of the blob element rejects and speak resumes
BlobRejected(c) ==
    /\ pc[c] = "blob"
    /\ audio[c]["blob"] = "starting"
    /\ Commit(onBlobRejected(Cur, c))
    /\ UNCHANGED <<pureVars, appVars>>

\* the speaking utterance ends and the next queued one starts
UtteranceEnds ==
    /\ nativeQueue # <<>>
    /\ nativeQueue' = Tail(nativeQueue)
    /\ UNCHANGED <<pc, text, sent, payload, audio, blob, audioRef,
                   hasSynth, raised, outcome, trace>>
    /\ UNCHANGED <<pureVars, appVars>>

Next ==
    \/ \E c \in Calls, t \in Texts : Speak(c, t)
    \/ \E c \in Calls, p \in SpeakPayloads : RequestResolved(c, p)
    \/ \E c \in Calls : RequestRejected(c)
    \/ \E c \in Calls, src \in Sources : AudioStarts(c, src)
    \/ \E c \in Calls, src \in Sources : AudioEnds(c, src)
    \/ \E c \in Calls : PlayResolved(c)
    \/ \E c \in Calls : DirectRejected(c)
    \/ \E c \in Calls : BlobRejected(c)
    \/ UtteranceEnds

Spec == Init /\ [][Next]_vars

(***************************************************************************)
(* The header code of speak run on its own, for data lengths over the      *)
(* whole range of a Uint8Array length field: 0..MaxDataLen and             *)
(* 2^32-1-MaxGap..2^32-1.                                                  *)
(***************************************************************************)
\* 2^32 - 1 - k as digits, for k < 256
NearMax(k) == [i \in 1..NumDigits |-> IF i = 1 THEN 255 - k ELSE IF i <= 4 THEN 255 ELSE 0]

DataLens == {ToNum(n) : n \in 0..MaxDataLen} \cup {NearMax(k) : k \in 0..MaxGap}

HeaderInit ==
    /\ SpeakInit
    /\ hasSynth = TRUE
    /\ arg \in DataLens
    /\ res = <<>>
    /\ stage = "len"
    /\ AppIdle

\* lines 164-195 for len = arg
BuildHeader ==
    /\ stage = "len"
    /\ res' = buildHeader(arg)
    /\ stage' = "header"
    /\ UNCHANGED arg
    /\ UNCHANGED <<speakVars, appVars>>

HeaderNext == BuildHeader

SpecHeader == HeaderInit /\ [][HeaderNext]_vars

(***************************************************************************)
(* The decode and WAV assembly of speak run on its own, for every base64   *)
(* string of at most MaxB64Len sample characters and for one of ten bytes. *)
(***************************************************************************)
\* a base64 string of 14 characters and two '=': ten bytes
Pcm10 == <<0, 22, 63, 0, 22, 63, 0, 22, 63, 0, 22, 63, 0, 16, PadChar, PadChar>>

B64Inputs == UNION {[1..n -> B64Sample] : n \in 0..MaxB64Len} \cup {Pcm10}

WavInit ==
    /\ SpeakInit
    /\ hasSynth = TRUE
    /\ arg \in B64Inputs
    /\ res = <<>>
    /\ AppIdle
    /\ stage = "b64"

\* lines 155-160: atob and the copy into bytes; atob may throw
Decode ==
    /\ stage = "b64"
    /\ LET dec == atob(arg)
       IN  IF dec.ok
           THEN /\ res' = [bytes |-> ToBytes(dec.str), wav |-> <<>>]
                /\ stage' = "bytes"
           ELSE /\ res' = res
                /\ stage' = "threw"
    /\ UNCHANGED arg
    /\ UNCHANGED <<speakVars, appVars>>

\* lines 164-201: the header, wavBytes and the blob
Assemble ==
    /\ stage = "bytes"
    /\ res' = [res EXCEPT !.wav = wavBytes(res.bytes)]
    /\ stage' = "wav"
    /\ UNCHANGED arg
    /\ UNCHANGED <<speakVars, appVars>>

WavNext == Decode \/ Assemble

SpecWav == WavInit /\ [][WavNext]_vars

(***************************************************************************)
(* Helpers of the properties.                                              *)
(***************************************************************************)
\* the positions of event ev in the trace of call c
Pos(c, ev) == {i \in 1..Len(trace[c]) : trace[c][i] = ev}

\* ev was logged by call c
Did(c, ev) == Pos(c, ev) # {}

\* every ev1 of call c precedes every ev2 of call c
Before(c, ev1, ev2) == \A i \in Pos(c, ev1), j \in Pos(c, ev2) : i < j

\* the audio elements that are playing
Playing == {x \in Calls \X Sources : audio[x[1]][x[2]] = "playing"}

\* call c got a response to its request
Answered(c) == pc[c] \notin {"idle", "fetch"} /\ "fetch" \notin raised[c]

\* a payload that is absent (undefined) or the empty string
EmptyOrAbsent(p) == p = Undefined \/ p = Str(<<>>)

\* the value of a little-endian byte sequence, as an integer
RECURSIVE LEValue(_)
LEValue(bs) == IF bs = <<>> THEN 0 ELSE bs[1] + 256 * LEValue(Tail(bs))

(***************************************************************************)
(* Properties.                                                             *)
(***************************************************************************)
\* C1 (as claimed): at most one audio resource created by speak is playing,
\* in every reachable state.  Violated: stop-then-replace runs only on entry,
\* so two calls that both passed entry both start their element.
C1_AtMostOnePlaying == Cardinality(Playing) <= 1

\* C2 (as claimed): no native utterance is speaking while an audio resource
\* of another speak call is playing.  Violated by the same race.
C2_NativeNeverOverAudio ==
    ~(nativeQueue # <<>> /\ \E x \in Playing : x[1] # Head(nativeQueue).call)

\* C3: the step in which a speak call enters pauses the recorded handle (if
\* any), leaves audioRef.current null and the native synthesizer silent, and
\* only then issues the request: in the call's trace the request comes last,
\* after the pause, the clear and the cancel, and no playback strategy has
\* been attempted.  The payload is not known yet, so this holds for all.
Enters(c) == pc[c] = "idle" /\ pc'[c] # "idle"

C3_EntryOf(c) ==
    /\ audioRef' = NoAudio
    /\ audioRef # NoAudio =>
          /\ audio'[audioRef.call][audioRef.src] = "paused"
          /\ Did(c, "pause")' /\ Did(c, "clear")'
    /\ nativeQueue' = <<>>
    /\ nativeQueue # <<>> => Did(c, "cancel")'
    /\ pc'[c] = "fetch"
    /\ trace'[c] # <<>> /\ trace'[c][Len(trace'[c])] = "request"
    /\ Cardinality(Pos(c, "request")') = 1
    /\ ~Did(c, "direct")' /\ ~Did(c, "blob")'
    /\ \A x \in Playing' : x \in Playing /\ x # <<audioRef.call, audioRef.src>>

C3_EntryStopsBeforeRequest == [][\A c \in Calls : Enters(c) => C3_EntryOf(c)]_vars

\* C3 witness: a call has entered while a handle was recorded: it paused the
\* other call's element, cleared the handle, cancelled and sent its request
C3_Witness ==
    \E c, d \in Calls :
        /\ pc[c] = "fetch"
        /\ trace[c] = <<"pause", "clear", "cancel", "request">>
        /\ d # c /\ outcome[d] = "direct" /\ audio[d]["direct"] = "paused"
        /\ audioRef = NoAudio

\* C4: for a call that got a non-empty payload, direct playback is the first
\* strategy attempted; the decode / header / blob strategy is attempted
\* exactly when direct playback raised; the call has failed exactly when both
\* raised; and when direct playback succeeded no header was built and the one
\* element the call started is its direct element, made the recorded handle
\* by that step.
Started(c) == {src \in Sources : audio[c][src] \in {"playing", "paused", "ended"}}

C4_Order(c) ==
    /\ Did(c, "direct")
    /\ Cardinality(Pos(c, "direct")) = 1
    /\ Before(c, "request", "direct")
    /\ Before(c, "direct", "audioCtx") /\ Before(c, "direct", "atob")
    /\ Before(c, "direct", "header") /\ Before(c, "direct", "blob")
    /\ Did(c, "atob") <=> "direct" \in raised[c]
    /\ Did(c, "blob") => "direct" \in raised[c]
    /\ "synth" \in raised[c] => "direct" \in raised[c]
    /\ pc[c] = "done" => (outcome[c] = "failed" <=> raised[c] = {"direct", "synth"})
    /\ outcome[c] = "direct" =>
          /\ ~Did(c, "header") /\ ~Did(c, "atob") /\ ~Did(c, "blob")
          /\ blob[c] = <<>>
          /\ audio[c]["blob"] = "none"
          /\ Started(c) = {"direct"}
          /\ raised[c] = {}

C4_StrictOrder ==
    [][\A c \in Calls :
          /\ (Answered(c) /\ ~EmptyOrAbsent(payload[c]) => C4_Order(c))'
          /\ outcome[c] = "none" /\ outcome'[c] = "direct" =>
                audioRef' = [call |-> c, src |-> "direct"]]_vars

\* C4 witness: one call succeeded directly, another went through the blob
C4_Witness ==
    \E c, d \in Calls :
        /\ outcome[c] = "direct" /\ audioRef = [call |-> c, src |-> "direct"]
        /\ audio[c]["direct"] = "playing"
        /\ outcome[d] = "blob" /\ raised[d] = {"direct"} /\ Did(d, "header")

\* the step in which call c ends in the catch of speak after both playback
\* strategies raised
BothRaise(c) ==
    outcome[c] = "none" /\ outcome'[c] = "failed" /\ raised'[c] = {"direct", "synth"}

\* the recorded handle, if any, is one its call recorded on success
RecordedByItsCall ==
    audioRef # NoAudio =>
        /\ outcome[audioRef.call] = audioRef.src
        /\ Did(audioRef.call, "record")

C6_Quiet(c) ==
    /\ pc[c] = "done" /\ outcome[c] = "noop"
    /\ trace[c][Len(trace[c])] = "request"
    /\ \A ev \in {"direct", "audioCtx", "atob", "header", "blob", "record", "native"} :
          ~Did(c, ev)
    /\ \A src \in Sources : audio[c][src] = "none"
    /\ blob[c] = <<>>
    /\ raised[c] = {}
    /\ audioRef.call # c
    /\ \A i \in 1..Len(nativeQueue) : nativeQueue[i].call # c

C6_EmptyPayloadNoOp ==
    [][\A c \in Calls :
          /\ (Answered(c) /\ EmptyOrAbsent(payload[c]) => C6_Quiet(c))'
          /\ pc[c] = "fetch" /\ Answered(c)' /\ EmptyOrAbsent(payload'[c]) =>
                /\ audioRef' = audioRef
                /\ nativeQueue' = nativeQueue
                /\ audio' = audio]_vars

\* C6 witness: one call answered with the empty string and one with no data
\* have both returned
C6_Witness ==
    \E c, d \in Calls :
        /\ Answered(c) /\ payload[c] = Str(<<>>) /\ outcome[c] = "noop"
        /\ Answered(d) /\ payload[d] = Undefined /\ outcome[d] = "noop"

\* the utterance the step hands to speechSynthesis.speak for call c
Utters(c, u) ==
    /\ nativeQueue' = Append(nativeQueue, u)
    /\ u.call = c

\* C9 (as claimed): the step in which both playback strategies of a call have
\* raised invokes the native synthesizer once, with the text of the call;
\* a call in which a strategy succeeded never invokes it.
C9_FallbackAlways ==
    [][\A c \in Calls :
          /\ BothRaise(c) =>
                /\ Utters(c, [call |-> c, text |-> text[c]])
                /\ Cardinality(Pos(c, "native")') = 1
          /\ (outcome[c] \in Sources => ~Did(c, "native"))']_vars

\* C9 (amended): as claimed where the platform has speechSynthesis; where it
\* has none, nothing is invoked.  The text is that of the call, which no step
\* after entry changes and which is longer than the text sent in the request
\* when it exceeds 300 characters.
C9_FallbackWhereSupported ==
    [][\A c \in Calls :
          /\ BothRaise(c) /\ hasSynth =>
                /\ Utters(c, [call |-> c, text |-> text[c]])
                /\ Cardinality(Pos(c, "native")') = 1
          /\ BothRaise(c) /\ ~hasSynth =>
                /\ nativeQueue' = nativeQueue
                /\ ~Did(c, "native")'
          /\ pc[c] # "idle" => text'[c] = text[c]
          /\ (outcome[c] \in Sources => ~Did(c, "native"))'
          /\ (outcome[c] \in Sources =>
                \A i \in 1..Len(nativeQueue) : nativeQueue[i].call # c)']_vars

\* C9 witness: both strategies raised for a text longer than the request's,
\* and the native synthesizer speaks the whole text
C9_Witness ==
    \E c \in Calls :
        /\ outcome[c] = "failed" /\ raised[c] = {"direct", "synth"}
        /\ text[c] = SubstringLimit + 1 /\ sent[c] = SubstringLimit
        /\ nativeQueue = <<[call |-> c, text |-> SubstringLimit + 1]>>

\* C10: a call answered with a string that is not base64 has failed direct
\* playback, then raised in the decode: it built no header, made no blob and
\* no second element, recorded no handle, and ended exactly as a call whose
\* blob playback raised: same outcome, same raised steps, same fallback.
Malformed(c) == Answered(c) /\ ~EmptyOrAbsent(payload[c]) /\ ~atob(payload[c].data).ok

BlobRaised(d) == pc[d] = "done" /\ audio[d]["blob"] = "failed"

\* what is left of the trace of call c after its direct playback attempt
AfterDirect(c) ==
    LET i == CHOOSE j \in Pos(c, "direct") : TRUE
    IN  SubSeq(trace[c], i + 1, Len(trace[c]))

C10_MalformedIsPlaybackFailure ==
    \A c \in Calls : Malformed(c) /\ pc[c] # "direct" =>
        /\ pc[c] = "done"
        /\ audio[c]["direct"] = "failed"
        /\ Before(c, "direct", "atob") /\ Did(c, "atob")
        /\ ~Did(c, "header") /\ ~Did(c, "blob") /\ ~Did(c, "record")
        /\ blob[c] = <<>>
        /\ audio[c]["blob"] = "none"
        /\ audioRef.call # c
        /\ outcome[c] = "failed"
        /\ raised[c] = {"direct", "synth"}
        /\ AfterDirect(c) = <<"audioCtx", "atob">> \o (IF hasSynth THEN <<"native">> ELSE <<>>)
        /\ \A d \in Calls : BlobRaised(d) =>
              /\ outcome[d] = outcome[c]
              /\ raised[d] = raised[c]
              /\ Cardinality(Pos(d, "native")) = Cardinality(Pos(c, "native"))
              /\ hasSynth => /\ trace[d][Len(trace[d])] = "native"
                              /\ trace[c][Len(trace[c])] = "native"

\* C10 witness: one call failed in the decode of a malformed payload and
\* another in blob playback, and both handed their text to the synthesizer
C10_Witness ==
    \E c, d \in Calls :
        /\ Malformed(c) /\ pc[c] = "done"
        /\ BlobRaised(d)
        /\ Len(nativeQueue) = 2

\* the data lengths N for which 36 + N does not fit 32 bits
Wraps(n) == \E k \in 0..35 : n = NearMax(k)

TwoTo32 == [i \in 1..NumDigits |-> IF i = 5 THEN 1 ELSE 0]

WrittenBy(stores, o) ==
    {k \in 1..Len(stores) : stores[k].off <= o /\ o < stores[k].off + StoreWidth(stores[k])}

C8_WavLayout ==
    stage = "wav" =>
        LET w == res.wav
            n == Len(res.bytes)
        IN  /\ Len(w) = 44 + n
            /\ \A i \in 1..Len(w) : w[i] \in 0..255
            /\ SubSeq(w, 1, 4) = <<82, 73, 70, 70>>
            /\ LEValue(SubSeq(w, 5, 8)) = 36 + n
            /\ SubSeq(w, 9, 12) = <<87, 65, 86, 69>>
            /\ SubSeq(w, 13, 16) = <<102, 109, 116, 32>>
            /\ LEValue(SubSeq(w, 17, 20)) = 16
            /\ LEValue(SubSeq(w, 21, 22)) = 1
            /\ LEValue(SubSeq(w, 23, 24)) = 1
            /\ LEValue(SubSeq(w, 25, 28)) = 24000
            /\ LEValue(SubSeq(w, 29, 32)) = 48000
            /\ LEValue(SubSeq(w, 33, 34)) = 2
            /\ LEValue(SubSeq(w, 35, 36)) = 16
            /\ SubSeq(w, 37, 40) = <<100, 97, 116, 97>>
            /\ LEValue(SubSeq(w, 41, 44)) = n
            /\ \A o \in 0..43 : Cardinality(WrittenBy(HeaderStores(ToNum(n)), o)) = 1
            /\ \A i \in 1..n : w[44 + i] = res.bytes[i]
            /\ n = 10 => SubSeq(w, 41, 44) = <<10, 0, 0, 0>> /\ Len(w) = 54

\* C8 witness: the ten-byte payload assembled into 54 bytes
C8_Witness ==
    /\ stage = "wav"
    /\ arg = Pcm10
    /\ Len(res.bytes) = 10
    /\ Len(res.wav) = 54
    /\ SubSeq(res.wav, 41, 46) = <<10, 0, 0, 0>> \o SubSeq(res.bytes, 1, 2)

\* C11 (as claimed): once the speak call that made it has completed its
\* playback start (and returned), an audio resource that is still playing is
\* the recorded handle audioRef.current, so the next entry stops it.
\* Violated: of two overlapping calls that both started playback the second
\* to resume overwrites the handle of the first, whose element plays on.
C11_PlayingIsRecorded ==
    \A x \in Playing :
        pc[x[1]] = "done" => audioRef = [call |-> x[1], src |-> x[2]]

(***************************************************************************)
(* The lessons library: the library state, its two effects and its two     *)
(* handlers.  A handler is a closure of the render that made it: it reads  *)
(* the library of that render, while the updater it queues is applied to   *)
(* the queued state at the next render.  React renders after the event     *)
(* that queued an update, so two handler calls made within one event or    *)
(* one task (two dispatched clicks, a test's batch) run against the same   *)
(* render; Render is therefore a step of its own.                          *)
(***************************************************************************)
MaxEdits == 3

\* image_url?: string, when absent
NoUrl == "undefined"

\* LessonData, lines 9-16; example_en, example_ar and image_prompt are
\* strings no library code reads and are left out
Lesson(e, t, u) == [english |-> e, timestamp |-> t, image_url |-> u]

\* the lessons taught: a word taught twice (timestamp: Date.now(), line 327;
\* the second time its image failed, line 304) and another word
Lessons == {Lesson("cat", 1, "data:image"), Lesson("cat", 2, NoUrl),
            Lesson("dog", 3, NoUrl)}

\* JSON.stringify of one lesson: a property whose value is undefined is
\* left out of the object
StringifyLesson(l) ==
    IF l.image_url = NoUrl
    THEN [english |-> l.english, timestamp |-> l.timestamp]
    ELSE [english |-> l.english, timestamp |-> l.timestamp,
          image_url |-> l.image_url]

\* JSON.stringify(library), line 55: the text of an array of objects
Stringify(lib) == [i \in DOMAIN lib |-> StringifyLesson(lib[i])]

\* a parsed object read as a LessonData: a missing property reads undefined
ParseLesson(o) ==
    Lesson(o.english, o.timestamp,
           IF "image_url" \in DOMAIN o THEN o.image_url ELSE NoUrl)

\* JSON.parse(savedLibrary), line 49
Parse(txt) == [i \in DOMAIN txt |-> ParseLesson(txt[i])]

\* localStorage.setItem('mustafa_library', txt)
Item(txt) == [has |-> TRUE, text |-> txt]

\* the libraries an earlier session may have stored
StoredLibraries ==
    {<<>>, <<Lesson("cat", 1, "data:image")>>,
     <<Lesson("dog", 3, NoUrl), Lesson("cat", 1, "data:image")>>}

\* the library part of the state, as a record the steps below transform
CurLib == [library |-> library, libQueue |-> libQueue, storage |-> storage]

\* the load effect, lines 46-51; the text "[]" of an empty array is a
\* non-empty string, so any item that exists is truthy
loadEffect(m) ==
    LET savedLibrary == m.storage
    IN  IF savedLibrary.has
        THEN [m EXCEPT !.libQueue =
                  Append(@, [op |-> "set", lib |-> Parse(savedLibrary.text)])]
        ELSE m

\* the save effect, lines 54-56
saveEffect(m) == [m EXCEPT !.storage = Item(Stringify(m.library))]

mountEffects_SaveFirst(m) == loadEffect(saveEffect(m))

\* the effects of the first render, run in the order they are declared
mountEffects(m) == saveEffect(loadEffect(m))

Filter(lib, ts) == SelectSeq(lib, LAMBDA l : l.timestamp # ts)

\* one queued update applied to the state it finds
ApplyUpdate(prev, u) ==
    CASE u.op = "set" -> u.lib
      [] u.op = "add" -> <<u.lesson>> \o prev
      [] u.op = "remove" -> Filter(prev, u.timestamp)

RECURSIVE ApplyUpdates(_, _)
ApplyUpdates(prev, q) ==
    IF q = <<>> THEN prev ELSE ApplyUpdates(ApplyUpdate(prev, Head(q)), Tail(q))

\* library.some(l => l.english === lesson.english), line 59
Some(lib, lesson) == \E i \in DOMAIN lib : lib[i].english = lesson.english

\* addToLibrary, lines 58-61
addToLibrary(m, lesson) ==
    IF Some(m.library, lesson)
    THEN m
    ELSE [m EXCEPT !.libQueue = Append(@, [op |-> "add", lesson |-> lesson])]

\* removeFromLibrary, lines 63-65
removeFromLibrary(m, ts) ==
    [m EXCEPT !.libQueue = Append(@, [op |-> "remove", timestamp |-> ts])]

CommitLib(m) ==
    /\ library' = m.library
    /\ libQueue' = m.libQueue
    /\ storage' = m.storage

\* useState([]) has rendered, line 38; the item is what an earlier session
\* left: nothing, or the text of a library
LibInit ==
    /\ SpeakInit
    /\ hasSynth = TRUE
    /\ PureIdle
    /\ library = <<>>
    /\ libQueue = <<>>
    /\ storage \in {NoItem} \cup {Item(Stringify(l)) : l \in StoredLibraries}
    /\ stored0 = storage
    /\ libPc = "effects"
    /\ saveDue = FALSE
    /\ edits = 0
    /\ ChatIdle

\* the effects of the first render run, in one pass
MountEffects ==
    /\ libPc = "effects"
    /\ CommitLib(mountEffects(CurLib))
    /\ libPc' = "mounted"
    /\ UNCHANGED <<saveDue, stored0, edits>>
    /\ UNCHANGED <<speakVars, pureVars, sendVars>>

\* the component renders again with the queued updates applied; the library
\* is a new array, so the save effect is due (dependency [library], line 56)
Render ==
    /\ libPc = "mounted"
    /\ libQueue # <<>>
    /\ ~saveDue
    /\ library' = ApplyUpdates(library, libQueue)
    /\ libQueue' = <<>>
    /\ saveDue' = TRUE
    /\ UNCHANGED <<storage, libPc, stored0, edits>>
    /\ UNCHANGED <<speakVars, pureVars, sendVars>>

\* the save effect of that render runs
SaveEffect ==
    /\ saveDue
    /\ CommitLib(saveEffect(CurLib))
    /\ saveDue' = FALSE
    /\ UNCHANGED <<libPc, stored0, edits>>
    /\ UNCHANGED <<speakVars, pureVars, sendVars>>

\* the save button of a lesson message is clicked, line 603
AddToLibrary(lesson) ==
    /\ libPc = "mounted"
    /\ edits < MaxEdits
    /\ CommitLib(addToLibrary(CurLib, lesson))
    /\ edits' = edits + 1
    /\ UNCHANGED <<libPc, saveDue, stored0>>
    /\ UNCHANGED <<speakVars, pureVars, sendVars>>

\* the remove button of a lesson the library panel shows is clicked, line 575
RemoveFromLibrary(ts) ==
    /\ libPc = "mounted"
    /\ edits < MaxEdits
    /\ \E i \in DOMAIN library : library[i].timestamp = ts
    /\ CommitLib(removeFromLibrary(CurLib, ts))
    /\ edits' = edits + 1
    /\ UNCHANGED <<libPc, saveDue, stored0>>
    /\ UNCHANGED <<speakVars, pureVars, sendVars>>

LibNext ==
    \/ MountEffects
    \/ Render
    \/ SaveEffect
    \/ \E lesson \in Lessons : AddToLibrary(lesson)
    \/ \E l \in Lessons : RemoveFromLibrary(l.timestamp)

SpecLib == LibInit /\ [][LibNext]_vars

\* C12 (as claimed): starting from an empty library, the library never holds
\* two lessons with the same english value, whatever addToLibrary and
\* removeFromLibrary calls were made, two adds of one lesson before the
\* component renders again included.
\* Violated: both adds test the library of the same render, both queue their
\* updater, and the next render holds the lesson twice.
C12_DistinctEnglish ==
    (~stored0.has \/ stored0.text = <<>>) =>
        \A i, j \in DOMAIN library :
            i # j => library[i].english # library[j].english

\* every queued update has been rendered and every effect has run
Settled == libPc = "mounted" /\ libQueue = <<>> /\ ~saveDue

\* C16: once the mount effects and the handler calls have settled, the item
\* 'mustafa_library' is the serialization of the library state; and when no
\* handler has been called since, a library stored before the mount is the
\* library state, the stored text and the state's serialization being equal.
C16_PersistenceRoundTrip ==
    Settled =>
        /\ storage.has
        /\ storage.text = Stringify(library)
        /\ Parse(storage.text) = library
        /\ (edits = 0 /\ stored0.has) =>
               /\ library = Parse(stored0.text)
               /\ Stringify(library) = stored0.text

\* a stored library of two lessons, one with and one without image, was
\* loaded, lessons were added and removed, and all has settled
C16_Witness ==
    /\ Settled
    /\ Len(stored0.text) = 2
    /\ edits = MaxEdits
    /\ Len(library) = 2
    /\ Stringify(library) # stored0.text

(***************************************************************************)
(* handleSend.  A text is a sequence of tokens: "sp" a white-space         *)
(* character, "teach" the word the teach mode starts with, "colon" the ':' *)
(* after it, "draw" one of the draw words, "word" any other word.          *)
(*                                                                         *)
(* A call runs to its first await in one step and each resumption, when    *)
(* the awaited request settles, is another.  The state setters are applied *)
(* to the state at once (messages by an updater of the latest state); what *)
(* a handler reads are the values of the render that made it, which the    *)
(* Render step brings up to date.  React renders in a microtask after the  *)
(* task that set state, so typing, picking an image and a resumption find  *)
(* the render up to date, while a second handler call dispatched in the    *)
(* same task runs before it.                                               *)
(***************************************************************************)
RECURSIVE TrimStart(_)
TrimStart(t) == IF t # <<>> /\ Head(t) = "sp" THEN TrimStart(Tail(t)) ELSE t

RECURSIVE TrimEnd(_)
TrimEnd(t) ==
    IF t # <<>> /\ t[Len(t)] = "sp" THEN TrimEnd(SubSeq(t, 1, Len(t) - 1)) ELSE t

\* text.trim()
Trim(t) == TrimEnd(TrimStart(t))

\* text.trim().startsWith('علمني:') || text.trim().startsWith('علمني'), line 259
TeachMode(t) == Trim(t) # <<>> /\ Head(Trim(t)) = "teach"

\* text.replace(/^علمني:?/, '').trim(), line 260: the pattern is anchored at
\* the start of the text as typed, not of the trimmed text
Term(t) ==
    Trim(IF t # <<>> /\ Head(t) = "teach"
         THEN IF Len(t) >= 2 /\ t[2] = "colon" THEN SubSeq(t, 3, Len(t)) ELSE Tail(t)
         ELSE t)

\* isDrawRequest, lines 348-353
IsDrawRequest(t) == \E i \in DOMAIN t : t[i] = "draw"

\* what is typed: nothing, a space, a sentence, the text of the teach
\* button (line 656) alone and with a term, a draw request (line 664)
SendTexts ==
    {<<>>, <<"sp">>, <<"word">>, <<"teach", "colon", "sp">>,
     <<"teach", "colon", "sp", "word">>,
     <<"draw", "sp", "word">>}

\* the chat part of the state, as a record the steps below transform
CurSend ==
    [messages |-> messages, input |-> input, selectedImage |-> selectedImage,
     isProcessing |-> isProcessing, sendPc |-> sendPc, sendText |-> sendText,
     sendLog |-> sendLog]

CommitSend(m) ==
    /\ messages' = m.messages
    /\ input' = m.input
    /\ selectedImage' = m.selectedImage
    /\ isProcessing' = m.isProcessing
    /\ sendPc' = m.sendPc
    /\ sendText' = m.sendText
    /\ sendLog' = m.sendLog

Note(m, s, ev) == [m EXCEPT !.sendLog[s] = Append(@, ev)]

\* setMessages(prev => [...prev, message]), lines 250, 331, 400, 418, 465, 475
setMessages(m, s, role) ==
    Note([m EXCEPT !.messages = Append(@, [role |-> role, send |-> s])], s, role)

\* setIsProcessing(value), lines 253, 342, 428, 481
setIsProcessing(m, s, value) ==
    Note([m EXCEPT !.isProcessing = value], s, IF value THEN "proc+" ELSE "proc-")

\* speak(...) is called and not awaited, lines 340, 407, 425, 471
callSpeak(m, s) == Note(m, s, "speak")

\* await ai.models.generateContent(...), lines 264, 290, 363, 376, 440, 453
generateContent(m, s, at) == Note([m EXCEPT !.sendPc[s] = at], s, "backend")

Finally_Absent(m, s) == [m EXCEPT !.sendPc[s] = "done"]

\* the finally block, lines 480-482, and the call is over
Finally(m, s) == setIsProcessing([m EXCEPT !.sendPc[s] = "done"], s, FALSE)

\* the catch block, lines 473-479
Catch(m, s) == Finally(setMessages(m, s, "assistant"), s)

\* lines 242-262 and 346-355, 432-453: an accepted call up to its first
\* await, or to its return when the teach term is empty
Accepted(m, s, txt, image) ==
    LET m1 == setMessages(m, s, "user")
        m2 == [m1 EXCEPT !.input = <<>>, !.selectedImage = FALSE]
        m3 == setIsProcessing(m2, s, TRUE)
    IN  IF TeachMode(txt)
        THEN IF Term(txt) = <<>>
             THEN Finally(m3, s)
             ELSE generateContent(m3, s, "edu")
        ELSE IF IsDrawRequest(txt) /\ ~image
             THEN generateContent(m3, s, "translate")
             ELSE generateContent(m3, s, "chat")

\* handleSend, lines 238-240, with the input, selectedImage and
\* isProcessing of the render it belongs to
handleSend(m, s, txt, image, processing) ==
    LET called == [m EXCEPT !.sendText[s] = txt]
    IN  IF (Trim(txt) = <<>> /\ ~image) \/ processing
        THEN [called EXCEPT !.sendPc[s] = "rejected"]
        ELSE Accepted(called, s, txt, image)

\* lines 284-286: the lesson request settled
afterEdu(m, s, r) ==
    IF r = "object" THEN generateContent(m, s, "eduImg") ELSE Catch(m, s)

\* lines 296-343: the lesson's image request settled, either way
afterEduImg(m, s) ==
    Finally(setIsProcessing(callSpeak(setMessages(m, s, "assistant"), s), s, FALSE), s)

\* lines 368-376: the translation settled, either way
afterTranslate(m, s) == generateContent(m, s, "drawImg")

\* lines 383-429: the image request settled; without image data the
\* fallback runs, where encodeURIComponent throws on a malformed prompt
afterDrawImg(m, s, r) ==
    IF r = "malformed"
    THEN Catch(m, s)
    ELSE Finally(setIsProcessing(callSpeak(setMessages(m, s, "assistant"), s), s, FALSE), s)

\* lines 463-471: the vision or chat request settled
afterChat(m, s, r) ==
    IF r = "resolved"
    THEN Finally(callSpeak(setMessages(m, s, "assistant"), s), s)
    ELSE Catch(m, s)

\* the render is behind the state
Dirty == inputR # input \/ imageR # selectedImage \/ procR # isProcessing

ChatInit ==
    /\ SpeakInit
    /\ hasSynth = TRUE
    /\ PureIdle
    /\ LibIdle
    /\ ChatIdle

\* the text area changes, line 694, and the component renders
TypeInput(t) ==
    /\ ~Dirty
    /\ input' = t
    /\ inputR' = t
    /\ UNCHANGED <<messages, selectedImage, isProcessing, imageR, procR,
                   sendPc, sendText, sendLog>>
    /\ UNCHANGED <<speakVars, pureVars, libVars>>

\* a picked file has been read, lines 231-233, and the component renders
SelectImage ==
    /\ ~Dirty
    /\ selectedImage' = TRUE
    /\ imageR' = TRUE
    /\ UNCHANGED <<messages, input, isProcessing, inputR, procR,
                   sendPc, sendText, sendLog>>
    /\ UNCHANGED <<speakVars, pureVars, libVars>>

\* Enter is pressed in the text area or the send button clicked, lines 698
\* and 726; calls are numbered in the order they are made
HandleSend(s) ==
    /\ sendPc[s] = "idle"
    /\ \A r \in Sends : r < s => sendPc[r] # "idle"
    /\ CommitSend(handleSend(CurSend, s, inputR, imageR, procR))
    /\ UNCHANGED <<inputR, imageR, procR>>
    /\ UNCHANGED <<speakVars, pureVars, libVars>>

\* the component renders with the state as it is
RenderChat ==
    /\ Dirty
    /\ inputR' = input
    /\ imageR' = selectedImage
    /\ procR' = isProcessing
    /\ UNCHANGED <<messages, input, selectedImage, isProcessing,
                   sendPc, sendText, sendLog>>
    /\ UNCHANGED <<speakVars, pureVars, libVars>>

Resumes(s, at, m) ==
    /\ ~Dirty
    /\ sendPc[s] = at
    /\ CommitSend(m)
    /\ UNCHANGED <<inputR, imageR, procR>>
    /\ UNCHANGED <<speakVars, pureVars, libVars>>

\* the lesson request settles: with the text of an object, with text
\* JSON.parse throws on, or rejected
EduSettles(s, r) == Resumes(s, "edu", afterEdu(CurSend, s, r))

EduImgSettles(s) == Resumes(s, "eduImg", afterEduImg(CurSend, s))

TranslateSettles(s) == Resumes(s, "translate", afterTranslate(CurSend, s))

\* the image request settles: with image data; without, or rejected, and
\* the fallback address is built; or the prompt cannot be encoded
DrawImgSettles(s, r) == Resumes(s, "drawImg", afterDrawImg(CurSend, s, r))

ChatSettles(s, r) == Resumes(s, "chat", afterChat(CurSend, s, r))

Settles(s) ==
    \/ \E r \in {"object", "notjson", "rejected"} : EduSettles(s, r)
    \/ EduImgSettles(s)
    \/ TranslateSettles(s)
    \/ \E r \in {"image", "fallback", "malformed"} : DrawImgSettles(s, r)
    \/ \E r \in {"resolved", "rejected"} : ChatSettles(s, r)

ChatNext ==
    \/ \E t \in SendTexts : TypeInput(t)
    \/ SelectImage
    \/ \E s \in Sends : HandleSend(s)
    \/ RenderChat
    \/ \E s \in Sends : Settles(s)

SpecSend == ChatInit /\ [][ChatNext]_vars

\* every awaited request settles and every due render happens
SpecSendFair ==
    SpecSend /\ WF_vars(RenderChat) /\ \A s \in Sends : WF_vars(Settles(s))

\* the calls that passed the entry guard and have not completed
InFlight == {s \in Sends : sendPc[s] \notin {"idle", "rejected", "done"}}

Count(log, ev) == Cardinality({i \in DOMAIN log : log[i] = ev})

\* the writes of isProcessing a call made, in order
ProcWrites(log) == SelectSeq(log, LAMBDA ev : ev \in {"proc+", "proc-"})

\* the call is over, having set isProcessing first to true and last to false
Reset(s) ==
    /\ sendPc[s] = "done"
    /\ Head(ProcWrites(sendLog[s])) = "proc+"
    /\ ProcWrites(sendLog[s])[Len(ProcWrites(sendLog[s]))] = "proc-"

\* C13: every handleSend call that passes the entry guard sets isProcessing
\* to true and, its awaited requests settling, completes with isProcessing
\* last set to false, on every path; so whenever calls are in flight or
\* isProcessing is true, a state follows with none in flight and
\* isProcessing false.
C13_ProcessingReset ==
    /\ [](\A s \in Sends : sendPc[s] = "done" => Reset(s))
    /\ (InFlight # {} \/ isProcessing) ~> (InFlight = {} /\ ~isProcessing)

\* one call returned on the empty teach term, another went through the
\* catch block, and isProcessing is false
C13_Witness ==
    /\ ~isProcessing
    /\ \E s, t \in Sends :
           /\ sendPc[s] = "done"
           /\ sendLog[s] = <<"user", "proc+", "proc-">>
           /\ sendPc[t] = "done"
           /\ sendLog[t] = <<"user", "proc+", "backend", "assistant", "proc-">>

\* where in the message list call s put its messages
Positions(s, role) ==
    {i \in DOMAIN messages : messages[i] = [role |-> role, send |-> s]}

\* C14 (as claimed): a handleSend call that passed the entry guard and has
\* completed appended exactly one user message and exactly one assistant
\* message, the assistant message after the user message.
\* Violated: a teach request without a term returns on line 261 with the
\* user message appended and no reply.
C14_OneUserOneAssistant ==
    \A s \in Sends :
        sendPc[s] = "done" =>
            /\ Count(sendLog[s], "user") = 1
            /\ Count(sendLog[s], "assistant") = 1
            /\ \A i \in Positions(s, "user"), j \in Positions(s, "assistant") : i < j

\* C15 (as claimed): a handleSend call made with a blank text and no image
\* selected, or while isProcessing is true, leaves the message list, the
\* input, the selected image and isProcessing as they were and makes no
\* backend or speak call; and at most one call is in flight at any time.
\* Violated: a second call made before the render that follows the first
\* reads isProcessing false, is accepted and runs beside the first.
C15_RejectedSendChangesNothing ==
    [][/\ \A s \in Sends :
              (/\ sendPc[s] = "idle"
               /\ sendPc'[s] # "idle"
               /\ \/ Trim(sendText'[s]) = <<>> /\ ~selectedImage
                  \/ isProcessing)
              => /\ UNCHANGED <<messages, input, selectedImage, isProcessing>>
                 /\ sendLog'[s] = <<>>
       /\ Cardinality(InFlight') <= 1]_vars

====
